---- MODULE Spec2Model ----
(***************************************************************************)
(* Weekly employee -> schedule assignment (optimize_schedules_with_sanity  *)
(* .py) and the /run handler around it (main.py).                          *)
(*                                                                         *)
(* Numbers.  The program works on floats read from a workbook.  The model  *)
(* keeps every cost, preference, hour and cap as an integer count of       *)
(* "units", one unit being 1/(SCALE*Quantum): a value of v units is the    *)
(* real v/(SCALE*Quantum), and value*SCALE is the rational v/Quantum, which *)
(* Round rounds the way Python's round() does.  Arithmetic is exact; the   *)
(* floating-point error of the sums is not modelled.                       *)
(***************************************************************************)
EXTENDS Integers, Sequences, FiniteSets, TLC

VARIABLES fs, pc, kind, args, input_path, output_path, mem, solver, result,
          written, uploaded, response, diag

vars == <<fs, pc, kind, args, input_path, output_path, mem, solver, result,
          written, uploaded, response, diag>>

\* Employees and schedules per day (the source's N = 20, cut down).
N == 2
\* Integer scale of the objective and of the hour-cap constraint.
SCALE == 1000
\* Units per 1/SCALE: the resolution of the inputs below the scale.
Quantum == 4
\* The source's list of seven day sheets, cut to its first two.
DAYS == <<"Mon", "Tue">>

Emp == 0 .. (N - 1)
Sched == 0 .. (N - 1)
DayIdx == 0 .. (Len(DAYS) - 1)
Day(d) == DAYS[d + 1]
DayNames == {DAYS[i] : i \in DOMAIN DAYS}
Keys == Emp \X Sched \X DayIdx
Runs == {1, 2}

RECURSIVE SumOver(_, _)
\* sum(f[k] for k in S), f a function defined on S
SumOver(S, f) ==
    IF S = {} THEN 0
    ELSE LET k == CHOOSE k \in S : TRUE IN f[k] + SumOver(S \ {k}, f)

\* sum(x[k] for k in S) of Boolean variables x: the number of ones
Ones(S, x) == Cardinality({k \in S : x[k] = 1})

\* int(v): truncation toward zero of the rational n/q (q > 0); the mutant of Round
Truncate(n, q) == IF n >= 0 THEN n \div q ELSE -((-n) \div q)

\* Python 3 round(n/q): to the nearest integer, a tie to the even one
Round(n, q) ==
    LET f == n \div q
        r == n % q
    IN  IF 2 * r < q THEN f
        ELSE IF 2 * r > q THEN f + 1
        ELSE IF f % 2 = 0 THEN f ELSE f + 1

\* int(round(value * SCALE)) of a value given in units
Scaled(v) == Round(v, Quantum)

(***************************************************************************)
(* Model builder: solve_cpsat, lines 196-238.  An assignment x maps every  *)
(* key <<e, s, d>> to 0 or 1; a day slice y maps every <<e, s>> to 0 or 1. *)
(***************************************************************************)

\* scaled objective coefficient of x[e, s, d]
ObjectiveCoef(inp, k) ==
    LET C == inp.costs[Day(k[3])]
        P == inp.prefs[Day(k[3])]
    IN  Scaled(C[k[1]][k[2]] - inp.lam * P[k[1]][k[2]])

\* the expression handed to model.Minimize, evaluated at x
ObjectiveValue(inp, x) ==
    SumOver(Keys, [k \in Keys |-> ObjectiveCoef(inp, k) * x[k]])

\* mutant of EmployeeAtMostOne: the per-employee constraint left out
EmployeeUnconstrained(y) == TRUE

\* employee at most one schedule per day
EmployeeAtMostOne(y) ==
    \A e \in Emp : Ones({<<e, s>> : s \in Sched}, y) <= 1

\* np.all(C[:, s] == 0.0) as the builder evaluates it
ColumnAllZero(C, s) == \A e \in Emp : C[e][s] = 0

\* mutant of ScheduleAvailability: an available schedule staffed at most once
ScheduleAtMostOnce(C, y) ==
    \A s \in Sched :
        IF ColumnAllZero(C, s)
        THEN \A e \in Emp : y[<<e, s>>] = 0
        ELSE Ones({<<e, s>> : e \in Emp}, y) <= 1

\* schedule availability: all-zero COST column => forbid; else exactly once
ScheduleAvailability(C, y) ==
    \A s \in Sched :
        IF ColumnAllZero(C, s)
        THEN \A e \in Emp : y[<<e, s>>] = 0
        ELSE Ones({<<e, s>> : e \in Emp}, y) = 1

KeysOf(e) == {k \in Keys : k[1] = e}

\* weekly shift caps
ShiftCapConstraint(inp, x) ==
    \A e \in Emp : Ones(KeysOf(e), x) <= inp.shift_caps[e]

\* mutant of HourCapConstraint: only the first day's hours are summed
HourCapFirstDayOnly(inp, x) ==
    \A e \in Emp :
        inp.hour_caps[e] > 0 =>
            SumOver({k \in KeysOf(e) : k[3] = 0},
                    [k \in KeysOf(e) |-> Scaled(inp.hours[Day(k[3])][k[2]]) * x[k]])
                <= Scaled(inp.hour_caps[e])

\* weekly hour caps, skipped when the cap is <= 0
HourCapConstraint(inp, x) ==
    \A e \in Emp :
        inp.hour_caps[e] > 0 =>
            SumOver(KeysOf(e),
                    [k \in KeysOf(e) |-> Scaled(inp.hours[Day(k[3])][k[2]]) * x[k]])
                <= Scaled(inp.hour_caps[e])

(***************************************************************************)
(* The solver (ortools CP-SAT, an external capability): any assignment of  *)
(* the Boolean variables that satisfies every constraint of the model.     *)
(* The search goes day by day: the two per-day constraints speak of one    *)
(* day's variables only.                                                   *)
(***************************************************************************)
DaySlices(C) ==
    {y \in [Emp \X Sched -> {0, 1}] : EmployeeAtMostOne(y) /\ ScheduleAvailability(C, y)}

Feasible(inp) ==
    UNION {
        {x \in {[k \in Keys |-> w[k[3]][<<k[1], k[2]>>]] :
                   w \in {v \in [DayIdx -> UNION {slices[d] : d \in DayIdx}] :
                             \A d \in DayIdx : v[d] \in slices[d]}} :
            ShiftCapConstraint(inp, x) /\ HourCapConstraint(inp, x)}
        : slices \in {[d \in DayIdx |-> DaySlices(inp.costs[Day(d)])]}}

NoValues == [k \in Keys |-> 0]

\* What solver.Solve(model) can come back with: OPTIMAL with a minimal assignment,
\* FEASIBLE with any assignment (the time budget ran out before the proof),
\* INFEASIBLE, or UNKNOWN (the time budget ran out before anything was found).
SolverOutcomes(inp) ==
    UNION {
        {[status |-> "UNKNOWN", values |-> NoValues, objective_value |-> 0]}
        \cup (IF scored = {}
              THEN {[status |-> "INFEASIBLE", values |-> NoValues, objective_value |-> 0]}
              ELSE {[status |-> "FEASIBLE", values |-> p[1], objective_value |-> p[2]] :
                       p \in scored}
                   \cup {[status |-> "OPTIMAL", values |-> p[1], objective_value |-> p[2]] :
                            p \in {q \in scored : \A o \in scored : q[2] <= o[2]}})
        : scored \in {{<<x, ObjectiveValue(inp, x)>> : x \in Feasible(inp)}}}

\* mutant of StatusAccepted: every status is taken for a solution
StatusAlwaysAccepted(status) == TRUE

\* status in (cp_model.OPTIMAL, cp_model.FEASIBLE)
StatusAccepted(status) == status \in {"OPTIMAL", "FEASIBLE"}

\* the unscaled objective recomputed from the raw matrices, in units
UnscaledObjective(inp, sol) ==
    SumOver({k \in Keys : sol[k] = 1},
            [k \in Keys |-> inp.costs[Day(k[3])][k[1]][k[2]]
                             - inp.lam * inp.prefs[Day(k[3])][k[1]][k[2]]])

(***************************************************************************)
(* write_solution: the decisions, the weekly figures and the Sanity sheet. *)
(***************************************************************************)

\* weekly hours per employee, in units
WeeklyHours(sol, hours) ==
    [e \in Emp |->
        SumOver({k \in KeysOf(e) : sol[k] = 1},
                [k \in KeysOf(e) |-> hours[Day(k[3])][k[2]]])]

\* mutant of AvailCol: a column counts as unavailable as soon as one entry is zero
AvailColAnyZero(C) == [s \in Sched |-> IF \E e \in Emp : C[e][s] = 0 THEN 0 ELSE 1]

\* avail_col as the validator computes it from the raw cost matrix of a day
AvailCol(C) == [s \in Sched |-> IF \A e \in Emp : C[e][s] = 0 THEN 0 ELSE 1]

Usage(sol, s, d) == SumOver(Emp, [e \in Emp |-> sol[<<e, s, d>>]])

EmployeeCount(sol, e, d) == SumOver(Sched, [s \in Sched |-> sol[<<e, s, d>>]])

\* mutant of IsViolation: only an over-staffed unavailable schedule is recorded
IsViolationOverOne(avail, usage) == avail = 0 /\ usage > 1

\* if avail_col[s] == 0 and usage != 0
IsViolation(avail, usage) == avail = 0 /\ usage # 0

RECURSIVE ViolationsOfDay(_, _, _, _)
\* the inner loop over s of one day d, from schedule s on
ViolationsOfDay(costs, sol, d, s) ==
    IF s >= N THEN <<>>
    ELSE (IF IsViolation(AvailCol(costs[Day(d)])[s], Usage(sol, s, d))
          THEN << <<Day(d), s>> >> ELSE <<>>)
         \o ViolationsOfDay(costs, sol, d, s + 1)

RECURSIVE ViolationsFrom(_, _, _)
\* the outer loop over the days, from day d on
ViolationsFrom(costs, sol, d) ==
    IF d >= Len(DAYS) THEN <<>>
    ELSE ViolationsOfDay(costs, sol, d, 0) \o ViolationsFrom(costs, sol, d + 1)

\* f"{day} : S{s}"
ViolationCell(v) == v[1] \o " : S" \o ToString(v[2])

\* the cells under the "Violations" header
ViolationCells(violations) ==
    IF violations # <<>>
    THEN [i \in 1 .. Len(violations) |-> ViolationCell(violations[i])]
    ELSE <<"None">>

SanitySheet(sol, costs, hours, hour_caps) ==
    [usage |-> [p \in DayIdx \X Sched |-> Usage(sol, p[2], p[1])],
     availability |-> [p \in DayIdx \X Sched |-> AvailCol(costs[Day(p[1])])[p[2]]],
     counts |-> [p \in DayIdx \X Emp |-> EmployeeCount(sol, p[2], p[1])],
     hours |-> [e \in Emp |-> <<hour_caps[e], WeeklyHours(sol, hours)[e]>>],
     violations |-> ViolationCells(ViolationsFrom(costs, sol, 0))]

Unsolved == [present |-> FALSE]

\* the workbook wb.save(xlsx_out) writes: the input workbook's own cells, the
\* decision blocks, B3, E6:E25 and the Sanity sheet
SolvedWorkbook(base, sol, objective, costs, hours, hour_caps) ==
    [kind |-> "workbook",
     inputs |-> base.inputs,
     solved |-> [present |-> TRUE,
                 X |-> sol,
                 objective |-> objective,
                 actual_hours |-> WeeklyHours(sol, hours),
                 sanity |-> SanitySheet(sol, costs, hours, hour_caps)]]

(***************************************************************************)
(* Files.  A path is the sequence of the parts of its name, so that        *)
(* str.replace acts on it; a file is missing, not a workbook, or a         *)
(* workbook: the input cells plus what write_solution added, if anything.  *)
(* A blank cell of the Weekly sheet is <<>>, a filled one <<v>>; a blank   *)
(* cell of a day sheet reads as 0.0 and is kept as 0.                      *)
(***************************************************************************)
Missing == [kind |-> "missing"]
BadFile == [kind |-> "bad"]
Workbook(cells) == [kind |-> "workbook", inputs |-> cells, solved |-> Unsolved]

UserPaths == {<<"a", ".xlsx">>, <<"b", ".xlsx">>}
\* the names NamedTemporaryFile can draw
TmpNames == {"/tmp/tmpk3", "/tmp/tmpq9"}
Paths == UserPaths \cup {<<n, sfx>> : n \in TmpNames, sfx \in {".xlsx", "_Solved.xlsx"}}
NoPath == <<>>

\* str.replace(old, new): every occurrence
Replace(path, old, new) ==
    [i \in DOMAIN path |-> IF path[i] = old THEN new ELSE path[i]]

\* read_cost_pref_hours_caps: float(v or 1.0) for lambda, 7 for a blank shift cap
ReadWorkbook(cells) ==
    [costs |-> cells.costs,
     prefs |-> cells.prefs,
     hours |-> cells.hours,
     lam |-> IF cells.lam = <<>> \/ cells.lam = <<0>> THEN 1 ELSE cells.lam[1],
     shift_caps |-> [e \in Emp |-> IF cells.shift_caps[e] = <<>> THEN 7
                                     ELSE cells.shift_caps[e][1]],
     hour_caps |-> cells.hour_caps]

NotRead == [present |-> FALSE]
NotSolved == [status |-> "NOT_RUN"]
NoResult == [present |-> FALSE]
NoResponse == [status |-> "none"]

\* f"{obj:.2f}": the objective in hundredths
TwoDecimals(obj) == Round(obj * 100, SCALE * Quantum)

(***************************************************************************)
(* The steps of a run r: main() of the script (kind "cli") and the /run    *)
(* handler (kind "api").  An exception ends a CLI run with the error and   *)
(* makes the handler return {status: error, message}.                      *)
(***************************************************************************)
Raise(r, msg) ==
    /\ pc' = [pc EXCEPT ![r] = "done"]
    /\ response' = [response EXCEPT ![r] = [status |-> "error", message |-> msg]]

\* main(): argparse
ParseArgs(r) ==
    /\ pc[r] = "idle" /\ kind[r] = "cli"
    /\ input_path' = [input_path EXCEPT ![r] = args[r].input]
    /\ output_path' = [output_path EXCEPT ![r] = args[r].output]
    /\ pc' = [pc EXCEPT ![r] = "read"]
    /\ UNCHANGED <<fs, kind, args, mem, solver, result, written, uploaded, response, diag>>

\* /run: the upload is copied to a fresh temporary file, the output path derived
SaveUpload(r) ==
    /\ pc[r] = "idle" /\ kind[r] = "api"
    /\ \E n \in TmpNames :
          LET p == <<n, ".xlsx">> IN
          /\ fs[p] = Missing
          /\ fs' = [fs EXCEPT ![p] = args[r].file]
          /\ input_path' = [input_path EXCEPT ![r] = p]
          /\ output_path' = [output_path EXCEPT ![r] = Replace(p, ".xlsx", "_Solved.xlsx")]
    /\ pc' = [pc EXCEPT ![r] = "read"]
    /\ UNCHANGED <<kind, args, mem, solver, result, written, uploaded, response, diag>>

\* read_cost_pref_hours_caps(input)
Read(r) ==
    /\ pc[r] = "read"
    /\ IF fs[input_path[r]].kind = "workbook"
       THEN /\ mem' = [mem EXCEPT ![r] = [present |-> TRUE,
                                          inp |-> ReadWorkbook(fs[input_path[r]].inputs)]]
            /\ pc' = [pc EXCEPT ![r] = IF kind[r] = "cli" THEN "precheck" ELSE "solve"]
            /\ UNCHANGED response
       ELSE /\ Raise(r, "cannot read the workbook")
            /\ UNCHANGED mem
    /\ UNCHANGED <<fs, kind, args, input_path, output_path, solver, result, written,
                   uploaded, diag>>

\* available = sum(0 if np.all(C[:, s] == 0.0) else 1 for s in range(N))
Available(C) == Cardinality({s \in Sched : ~ \A e \in Emp : C[e][s] = 0})

\* main(): the precheck collects and prints the days with available > N, and goes on
Precheck(r) ==
    /\ pc[r] = "precheck"
    /\ diag' = [diag EXCEPT ![r] =
                   {<<day, Available(mem[r].inp.costs[day])>> :
                       day \in {dn \in DayNames : Available(mem[r].inp.costs[dn]) > N}}]
    /\ pc' = [pc EXCEPT ![r] = "solve"]
    /\ UNCHANGED <<fs, kind, args, input_path, output_path, mem, solver, result, written,
                   uploaded, response>>

\* solve_cpsat: build, solve, raise on no solution, extract
Solve(r) ==
    /\ pc[r] = "solve"
    /\ \E o \in SolverOutcomes(mem[r].inp) :
          /\ solver' = [solver EXCEPT ![r] = [status |-> o.status,
                                              objective_value |-> o.objective_value]]
          /\ IF StatusAccepted(o.status)
             THEN /\ result' = [result EXCEPT ![r] =
                                   [present |-> TRUE, sol |-> o.values,
                                    obj |-> UnscaledObjective(mem[r].inp, o.values)]]
                  /\ pc' = [pc EXCEPT ![r] = "write"]
                  /\ UNCHANGED response
             ELSE /\ Raise(r, "No feasible solution found. Check availability, Weekly caps, and Max Hours.")
                  /\ UNCHANGED result
    /\ UNCHANGED <<fs, kind, args, input_path, output_path, mem, written, uploaded, diag>>

\* write_solution(input, sol, obj, output, costs, hours, hour_caps); the CLI then
\* prints "Solved. Objective=... Wrote ..." and ends
WriteSolution(r) ==
    /\ pc[r] = "write"
    /\ IF fs[input_path[r]].kind = "workbook"
       THEN LET wb == SolvedWorkbook(fs[input_path[r]], result[r].sol, result[r].obj,
                                     mem[r].inp.costs, mem[r].inp.hours,
                                     mem[r].inp.hour_caps)
            IN  /\ fs' = [fs EXCEPT ![output_path[r]] = wb]
                /\ written' = [written EXCEPT ![r] = wb]
                /\ IF kind[r] = "cli"
                   THEN /\ pc' = [pc EXCEPT ![r] = "done"]
                        /\ response' = [response EXCEPT ![r] =
                               [status |-> "success",
                                objective |-> TwoDecimals(result[r].obj),
                                wrote |-> output_path[r]]]
                   ELSE /\ pc' = [pc EXCEPT ![r] = "upload"]
                        /\ UNCHANGED response
       ELSE /\ Raise(r, "cannot load the input workbook")
            /\ UNCHANGED <<fs, written>>
    /\ UNCHANGED <<kind, args, input_path, output_path, mem, solver, result, uploaded, diag>>

\* /run: the solved file is posted to the file host
Upload(r) ==
    /\ pc[r] = "upload"
    /\ IF fs[output_path[r]] = Missing
       THEN /\ Raise(r, "cannot open the output file")
            /\ UNCHANGED uploaded
       ELSE \E ok \in BOOLEAN :
               IF ok
               THEN /\ uploaded' = [uploaded EXCEPT ![r] = fs[output_path[r]]]
                    /\ pc' = [pc EXCEPT ![r] = "rm_in"]
                    /\ UNCHANGED response
               ELSE /\ Raise(r, "Upload failed")
                    /\ UNCHANGED uploaded
    /\ UNCHANGED <<fs, kind, args, input_path, output_path, mem, solver, result, written, diag>>

\* /run: os.remove(input_path)
RemoveInput(r) ==
    /\ pc[r] = "rm_in"
    /\ IF fs[input_path[r]] = Missing
       THEN /\ Raise(r, "no such file")
            /\ UNCHANGED fs
       ELSE /\ fs' = [fs EXCEPT ![input_path[r]] = Missing]
            /\ pc' = [pc EXCEPT ![r] = "rm_out"]
            /\ UNCHANGED response
    /\ UNCHANGED <<kind, args, input_path, output_path, mem, solver, result, written,
                   uploaded, diag>>

\* /run: os.remove(output_path), then the success response
RemoveOutput(r) ==
    /\ pc[r] = "rm_out"
    /\ IF fs[output_path[r]] = Missing
       THEN /\ Raise(r, "no such file")
            /\ UNCHANGED fs
       ELSE /\ fs' = [fs EXCEPT ![output_path[r]] = Missing]
            /\ pc' = [pc EXCEPT ![r] = "done"]
            /\ response' = [response EXCEPT ![r] =
                   [status |-> "success", objective |-> result[r].obj,
                    download_url |-> <<"tmpfiles.org", r>>]]
    /\ UNCHANGED <<kind, args, input_path, output_path, mem, solver, result, written,
                   uploaded, diag>>

Next ==
    \E r \in Runs :
        \/ ParseArgs(r)
        \/ SaveUpload(r)
        \/ Read(r)
        \/ Precheck(r)
        \/ Solve(r)
        \/ WriteSolution(r)
        \/ Upload(r)
        \/ RemoveInput(r)
        \/ RemoveOutput(r)

(***************************************************************************)
(* Workbooks a run is started on.                                          *)
(***************************************************************************)
\* the whole number v, in units
Whole(v) == v * SCALE * Quantum

\* Availability patterns: the cost of employee e on schedule s of a day is
\* colv[day, s] * rowv[e], so a column is all zero, partly zero (employee 0 may
\* cost nothing) or nowhere zero.
\* No preferences, eight-hour schedules, no hour caps, one shift cap for all.
StructCells(colv, rowv, capcell) ==
    [costs |-> [day \in DayNames |-> [e \in Emp |-> [s \in Sched |->
                   colv[<<day, s>>] * rowv[e]]]],
     prefs |-> [day \in DayNames |-> [e \in Emp |-> [s \in Sched |-> 0]]],
     hours |-> [day \in DayNames |-> [s \in Sched |-> Whole(8)]],
     lam |-> <<>>,
     shift_caps |-> [e \in Emp |-> capcell],
     hour_caps |-> [e \in Emp |-> 0]]

StructFiles ==
    {Workbook(StructCells(colv, rowv, capcell)) :
        colv \in [DayNames \X Sched -> {0, 1}],
        rowv \in {v \in [Emp -> {0, Whole(5)}] : \A e \in Emp \ {0} : v[e] # 0},
        capcell \in {<<>>, <<1>>}}
    \cup {BadFile}

\* Values below the scale: every schedule available; cost ca and preference p on
\* the diagonal e = s, a fixed cost off it; hours h0 for schedule 0 and h1 (h0 or
\* eight hours) for the others; an hour cap hc for employee 0 alone.
NumCells(ca, p, lamcell, h0, h1, hc) ==
    [costs |-> [day \in DayNames |-> [e \in Emp |-> [s \in Sched |->
                   IF e = s THEN ca ELSE Quantum + 2]]],
     prefs |-> [day \in DayNames |-> [e \in Emp |-> [s \in Sched |->
                   IF e = s THEN p ELSE 0]]],
     hours |-> [day \in DayNames |-> [s \in Sched |-> IF s = 0 THEN h0 ELSE h1]],
     lam |-> lamcell,
     shift_caps |-> [e \in Emp |-> <<>>],
     hour_caps |-> [e \in Emp |-> IF e = 0 THEN hc ELSE 0]]

SmallVals == 1 .. (Quantum - 1)
HourVals == {1, Quantum \div 2, Quantum - 1, Whole(8)}
CapVals == {0, 1, Quantum, Whole(10)}

NumFiles ==
    {Workbook(NumCells(ca, pl[1], pl[2], hh[1], hh[2], hc)) :
        ca \in SmallVals, pl \in {<<0, <<>>>>, <<1, <<>>>>, <<1, <<2>>>>},
        hh \in {q \in HourVals \X HourVals : q[2] \in {q[1], Whole(8)}},
        hc \in CapVals}
    \cup {BadFile}

PathA == <<"a", ".xlsx">>
PathB == <<"b", ".xlsx">>

Fresh ==
    /\ input_path = [r \in Runs |-> NoPath]
    /\ output_path = [r \in Runs |-> NoPath]
    /\ mem = [r \in Runs |-> NotRead]
    /\ solver = [r \in Runs |-> NotSolved]
    /\ result = [r \in Runs |-> NoResult]
    /\ written = [r \in Runs |-> Missing]
    /\ uploaded = [r \in Runs |-> Missing]
    /\ response = [r \in Runs |-> NoResponse]
    /\ diag = [r \in Runs |-> {}]

\* one run, of either kind, on the file `content`
OneRun(content, k) ==
    /\ kind = [r \in Runs |-> IF r = 1 THEN k ELSE "none"]
    /\ pc = [r \in Runs |-> IF r = 1 THEN "idle" ELSE "absent"]
    /\ args = [r \in Runs |->
                  IF r # 1 THEN [none |-> TRUE]
                  ELSE IF k = "cli" THEN [input |-> PathA, output |-> PathB]
                  ELSE [file |-> content]]
    /\ fs = [p \in Paths |-> IF k = "cli" /\ p = PathA THEN content ELSE Missing]
    /\ Fresh

Init == \E content \in StructFiles, k \in {"cli", "api"} : OneRun(content, k)

Spec == Init /\ [][Next]_vars

InitNum == \E content \in NumFiles, k \in {"cli", "api"} : OneRun(content, k)

SpecNum == InitNum /\ [][Next]_vars

(***************************************************************************)
(* Properties of one run (Spec, SpecNum).                                  *)
(***************************************************************************)
Staff(sol, s, d) == {e \in Emp : sol[<<e, s, d>>] = 1}
Shifts(sol, e, d) == {s \in Sched : sol[<<e, s, d>>] = 1}
ZeroColumn(C, s) == \A e \in Emp : C[e][s] = 0
PartlyZeroColumn(C, s) == (\E e \in Emp : C[e][s] = 0) /\ (\E e \in Emp : C[e][s] # 0)

\* C1: in every assignment solve_cpsat returns, on every day a schedule whose cost
\* column is all zero is staffed by no employee and every other schedule by
\* exactly one.
C1_StaffedExactlyOnceOrNever ==
    \A r \in Runs :
        result[r].present =>
            \A d \in DayIdx, s \in Sched :
                /\ \A e \in Emp : result[r].sol[<<e, s, d>>] \in {0, 1}
                /\ Cardinality(Staff(result[r].sol, s, d))
                      = IF ZeroColumn(mem[r].inp.costs[Day(d)], s) THEN 0 ELSE 1

\* an assignment was returned for a week with an all-zero column, left unstaffed,
\* and a partly zero column, staffed
C1_Witness ==
    \E r \in Runs :
        /\ result[r].present
        /\ \E d \in DayIdx, s \in Sched :
              /\ ZeroColumn(mem[r].inp.costs[Day(d)], s)
              /\ Staff(result[r].sol, s, d) = {}
        /\ \E d \in DayIdx, s \in Sched :
              /\ PartlyZeroColumn(mem[r].inp.costs[Day(d)], s)
              /\ Staff(result[r].sol, s, d) # {}

\* C2: in every assignment solve_cpsat returns, every employee has at most one
\* schedule on every day; none is allowed.
C2_AtMostOneSchedulePerDay ==
    \A r \in Runs :
        result[r].present =>
            \A d \in DayIdx, e \in Emp : Cardinality(Shifts(result[r].sol, e, d)) <= 1

\* an assignment was returned in which one employee has a day off while another
\* works that day
C2_Witness ==
    \E r \in Runs :
        /\ result[r].present
        /\ \E d \in DayIdx, e1 \in Emp, e2 \in Emp :
              /\ Shifts(result[r].sol, e1, d) = {}
              /\ Cardinality(Shifts(result[r].sol, e2, d)) = 1

SolverFailed(r) == solver[r].status \in {"INFEASIBLE", "UNKNOWN"}

\* C5: when the solver returns a status other than OPTIMAL or FEASIBLE the run is
\* over and has failed: no assignment is extracted, write_solution is not run,
\* nothing is at the output path or uploaded, and the run ends with the error
\* (the handler's {status: error, message}), never with success.
C5_NoSolutionEndsTheRun ==
    \A r \in Runs :
        SolverFailed(r) =>
            /\ pc[r] = "done"
            /\ response[r].status = "error"
            /\ ~ result[r].present
            /\ written[r] = Missing
            /\ uploaded[r] = Missing
            /\ fs[output_path[r]] = Missing

\* a /run request ended with the error response on an infeasible model
C5_Witness ==
    \E r \in Runs :
        /\ kind[r] = "api"
        /\ solver[r].status = "INFEASIBLE"
        /\ response[r].status = "error"

\* C7: in every run that wrote its output, the violation list is empty and
\* reported as "None", and the availability flag the validator recomputed agrees,
\* for every day and schedule, with the test the model builder used, so that no
\* unavailable schedule has a usage above 0.
C7_NoViolationInWrittenRun ==
    \A r \in Runs :
        written[r] # Missing =>
            LET sanity == written[r].solved.sanity IN
            /\ sanity.violations = <<"None">>
            /\ \A d \in DayIdx, s \in Sched :
                  /\ sanity.availability[<<d, s>>]
                        = IF ColumnAllZero(mem[r].inp.costs[Day(d)], s) THEN 0 ELSE 1
                  /\ sanity.availability[<<d, s>>] = 0 => sanity.usage[<<d, s>>] = 0

\* a run wrote its output for a week with an unavailable schedule and a staffed,
\* partly zero one
C7_Witness ==
    \E r \in Runs :
        /\ written[r] # Missing
        /\ \E d \in DayIdx, s \in Sched :
              written[r].solved.sanity.availability[<<d, s>>] = 0
        /\ \E d \in DayIdx, s \in Sched :
              /\ PartlyZeroColumn(mem[r].inp.costs[Day(d)], s)
              /\ written[r].solved.sanity.usage[<<d, s>>] = 1

\* the largest entry of the hours vectors
MaxScheduleHours(hours) ==
    CHOOSE h \in {hours[day][s] : day \in DayNames, s \in Sched} :
        \A day \in DayNames, s \in Sched : hours[day][s] <= h

Assigned(sol) == {k \in Keys : sol[k] = 1}
Abs(v) == IF v < 0 THEN -v ELSE v

\* C6: for every assignment solve_cpsat returns, the objective recomputed from the
\* raw matrices differs from the solver's objective divided by SCALE by at most
\* 0.5/SCALE times the number of assigned triples.
C6_ObjectiveWithinTolerance ==
    \A r \in Runs :
        result[r].present =>
            2 * Abs(result[r].obj - Quantum * solver[r].objective_value)
                <= Quantum * Cardinality(Assigned(result[r].sol))

\* an assignment of several triples was returned whose recomputed objective
\* differs from the solver's
C6_Witness ==
    \E r \in Runs :
        /\ result[r].present
        /\ Cardinality(Assigned(result[r].sol)) >= 2
        /\ result[r].obj # Quantum * solver[r].objective_value

\* The precheck of main() has nothing to report: a day sheet has N cost columns,
\* so no day has more than N available schedules.
PrecheckSilent == \A r \in Runs : diag[r] = {}

(***************************************************************************)
(* Two runs at once (SpecRuns): CLI processes started on paths the caller  *)
(* gives, /run requests served by several workers.                         *)
(***************************************************************************)
\* two small workbooks: schedule 0 of the first day available, the others of that
\* day available or not, nothing on the other days
SmallFiles ==
    {Workbook(StructCells(colv, [e \in Emp |-> Whole(5)], <<>>)) :
        colv \in {c \in [DayNames \X Sched -> {0, 1}] :
                     /\ c[<<DAYS[1], 0>>] = 1
                     /\ \A s \in Sched \ {0} : c[<<DAYS[1], s>>] = c[<<DAYS[1], 1>>]
                     /\ \A day \in DayNames \ {DAYS[1]}, s \in Sched : c[<<day, s>>] = 0}}

InitRuns ==
    /\ kind \in [Runs -> {"cli", "api"}]
    /\ pc = [r \in Runs |-> "idle"]
    /\ \E a \in [Runs -> [input : UserPaths, output : UserPaths] \cup [file : SmallFiles]] :
          /\ \A r \in Runs : (kind[r] = "cli") <=> ("input" \in DOMAIN a[r])
          /\ args = a
    /\ \E content \in SmallFiles :
          /\ \A s \in Sched : content.inputs.costs[DAYS[1]][0][s] # 0
          /\ fs = [p \in Paths |-> IF p = PathA THEN content ELSE Missing]
    /\ Fresh

SpecRuns == InitRuns /\ [][Next]_vars

MidRun(r) == pc[r] \notin {"absent", "idle", "done"}

\* C8: runs that overlap in time never collide on files: their output paths are
\* distinct, none writes to a path another reads its input from, and the output
\* a run wrote stays as written until that run is done with it.
C8_RunsNeverCollide ==
    /\ \A r1 \in Runs, r2 \in Runs :
          (r1 # r2 /\ MidRun(r1) /\ MidRun(r2)) =>
              /\ output_path[r1] # output_path[r2]
              /\ output_path[r1] # input_path[r2]
    /\ \A r \in Runs :
          (pc[r] \in {"upload", "rm_in", "rm_out"}) => fs[output_path[r]] = written[r]

\* what a finished run returned and wrote, the names of its own files left out
Outcome(r) ==
    [status |-> response[r].status,
     objective |-> response[r].objective,
     workbook |-> written[r]]

Succeeded(r) == pc[r] = "done" /\ response[r].status = "success"

\* C9: a run whose solver returned FEASIBLE goes on to extraction, validation and
\* output as an OPTIMAL one does, and what it returns and writes records that
\* optimality was not proven: it differs from what an OPTIMAL run of the same
\* kind returns and writes.
C9_FeasibleIsRecorded ==
    /\ \A r \in Runs : solver[r].status = "FEASIBLE" => result[r].present
    /\ \A r1 \in Runs, r2 \in Runs :
          (/\ Succeeded(r1) /\ Succeeded(r2)
           /\ kind[r1] = kind[r2]
           /\ solver[r1].status = "FEASIBLE"
           /\ solver[r2].status = "OPTIMAL") => Outcome(r1) # Outcome(r2)

(***************************************************************************)
(* The validator on any assignment map (SpecValidator): write_solution is  *)
(* called with a map of at most two ones, placed anywhere.                 *)
(***************************************************************************)
InitValidator ==
    \E colv \in [DayNames \X Sched -> {0, 1}],
       rowv \in {v \in [Emp -> {0, Whole(5)}] : \A e \in Emp \ {0} : v[e] # 0},
       k1 \in Keys, k2 \in Keys, none \in BOOLEAN :
        LET file == Workbook(StructCells(colv, rowv, <<>>))
            inp == ReadWorkbook(file.inputs)
            sol == [k \in Keys |-> IF ~ none /\ k \in {k1, k2} THEN 1 ELSE 0]
        IN  /\ kind = [r \in Runs |-> IF r = 1 THEN "cli" ELSE "none"]
            /\ pc = [r \in Runs |-> IF r = 1 THEN "write" ELSE "absent"]
            /\ args = [r \in Runs |-> IF r = 1 THEN [input |-> PathA, output |-> PathB]
                                       ELSE [none |-> TRUE]]
            /\ fs = [p \in Paths |-> IF p = PathA THEN file ELSE Missing]
            /\ input_path = [r \in Runs |-> IF r = 1 THEN PathA ELSE NoPath]
            /\ output_path = [r \in Runs |-> IF r = 1 THEN PathB ELSE NoPath]
            /\ mem = [r \in Runs |-> IF r = 1 THEN [present |-> TRUE, inp |-> inp] ELSE NotRead]
            /\ solver = [r \in Runs |-> NotSolved]
            /\ result = [r \in Runs |->
                            IF r = 1 THEN [present |-> TRUE, sol |-> sol,
                                           obj |-> UnscaledObjective(inp, sol)]
                            ELSE NoResult]
            /\ written = [r \in Runs |-> Missing]
            /\ uploaded = [r \in Runs |-> Missing]
            /\ response = [r \in Runs |-> NoResponse]
            /\ diag = [r \in Runs |-> {}]

NextValidator == \E r \in Runs : WriteSolution(r)

SpecValidator == InitValidator /\ [][NextValidator]_vars

\* the (day, schedule) pairs with an all-zero cost column and a non-zero usage
Offending(costs, sol) ==
    {p \in DayIdx \X Sched :
        /\ ZeroColumn(costs[Day(p[1])], p[2])
        /\ Staff(sol, p[2], p[1]) # {}}

\* C10: whatever assignment map write_solution is given, the violation cells it
\* writes are exactly the (day, schedule) pairs whose cost column is all zero on
\* that day and whose usage is not zero, one cell each, naming the day and the
\* schedule; the cell says "None" if and only if there is no such pair.
C10_ViolationsExactlyTheOffending ==
    \A r \in Runs :
        written[r] # Missing =>
            LET cells == written[r].solved.sanity.violations
                bad == Offending(mem[r].inp.costs, written[r].solved.X)
            IN  /\ (cells = <<"None">>) <=> (bad = {})
                /\ bad # {} =>
                      /\ {cells[i] : i \in DOMAIN cells}
                            = {Day(p[1]) \o " : S" \o ToString(p[2]) : p \in bad}
                      /\ Len(cells) = Cardinality(bad)

\* write_solution recorded two violations of a map that breaks the constraints
C10_Witness ==
    \E r \in Runs :
        /\ written[r] # Missing
        /\ Len(written[r].solved.sanity.violations) = 2
        /\ Cardinality(Offending(mem[r].inp.costs, written[r].solved.X)) = 2

====
